---------------------------- MODULE Spec2Model ----------------------------
(***************************************************************************)
(* A model of the DataProfiler statistical profiling engine.               *)
(*                                                                         *)
(*   src/app/analysis.py   DataAnalyzer (in-memory pipeline)               *)
(*   src/app/tasks.py      DataAnalysisTask (persisted pipeline)           *)
(*   src/app/models.py     UploadedFile, ReportEntry, CorrelationEntry,    *)
(*                         AnomalyEntry                                    *)
(*                                                                         *)
(* A data frame is a sequence of columns over a RangeIndex 0..n-1.  A cell *)
(* is <<>> (null / NaN) or <<v>> with v an integer.  Numbers are exact:    *)
(* every comparison the code makes on floats is made here on integers      *)
(* after clearing denominators, so a quartile is carried as four times its *)
(* value and a z-score threshold is compared on squares.                   *)
(***************************************************************************)
EXTENDS Integers, Sequences, FiniteSets, TLC

(***************************************************************************)
(* Bounds of the input space.                                              *)
(***************************************************************************)
MaxCols  == 2     \* columns of a generated frame
MaxCells == 2     \* free cells of a generated frame (columns * free rows)
MaxVal   == 2     \* free numeric cells range over 0..MaxVal and null
PadLen   == 10    \* rows of zeros that may follow the free rows

(***************************************************************************)
(* Program constants.                                                      *)
(***************************************************************************)
IndexCap == 100          \* indices[:100]
z_score_threshold == 3   \* z_score_threshold = 3
zscore_ddof == 0         \* scipy.stats.zscore(a, axis=0, ddof=0)

Null == <<>>
IsNull(cell) == Len(cell) = 0
Val(cell) == cell[1]

ColumnNames == <<"A", "B", "C", "D">>

Abs(x) == IF x < 0 THEN -x ELSE x
Min2(a, b) == IF a < b THEN a ELSE b

(***************************************************************************)
(* Sums over finite sets and sequences.                                    *)
(***************************************************************************)
RECURSIVE SumOver(_, _)
SumOver(S, f) ==
    IF S = {} THEN 0
    ELSE LET x == CHOOSE y \in S : TRUE IN f[x] + SumOver(S \ {x}, f)

\* sum of f over its (finite) domain
SumFn(f) == SumOver(DOMAIN f, f)

Const(n, v) == [i \in 1..n |-> v]

(***************************************************************************)
(* Floats.  NaN is <<>>; a finite float is the reduced fraction <<n, d>>,  *)
(* d > 0, so that equal values are equal tuples.                           *)
(***************************************************************************)
NaN == <<>>
IsNaN(x) == Len(x) = 0

RECURSIVE GCD(_, _)
GCD(a, b) == IF b = 0 THEN a ELSE GCD(b, a % b)

Rat(n, d) ==
    LET g == GCD(Abs(n), d) IN <<n \div g, d \div g>>

\* p/q <= r/s for p, r >= 0 and q, s > 0, without forming the products
RECURSIVE FracLeq(_, _, _, _)
FracLeq(p, q, r, s) ==
    IF p \div q # r \div s THEN p \div q < r \div s
    ELSE IF p % q = 0 THEN TRUE
    ELSE IF r % s = 0 THEN FALSE
    ELSE FracLeq(s, r % s, q, p % q)

(***************************************************************************)
(* pandas objects.                                                         *)
(*   DataFrame : Seq([name, numeric, cells])                               *)
(*   Series    : Seq([idx, val]); idx is the row label, position is the    *)
(*               place in the sequence.                                    *)
(***************************************************************************)
NRows(df) == IF Len(df) = 0 THEN 0 ELSE Len(df[1].cells)

\* a variant of Empty that looks at the columns only
Empty_columns_only(df) == Len(df) = 0

\* DataFrame.empty: any axis of length 0
Empty(df) == Len(df) = 0 \/ NRows(df) = 0

\* df.columns
Columns(df) == [i \in 1..Len(df) |-> df[i].name]

\* df[col] as a Series over the frame's RangeIndex
SeriesOf(column) ==
    [p \in 1..Len(column.cells) |-> [idx |-> p - 1, val |-> column.cells[p]]]

\* df.select_dtypes(include=[np.number])
IsNumeric(column) == column.numeric
select_dtypes(df) == SelectSeq(df, IsNumeric)

\* a variant of dropna that relabels what is left 0, 1, 2, ...
\* (dropna().reset_index(drop=True))
dropna_reset_index(s) ==
    LET kept == SelectSeq(s, LAMBDA e : ~IsNull(e.val))
    IN [p \in 1..Len(kept) |-> [idx |-> p - 1, val |-> kept[p].val]]

\* Series.dropna(): the non-null entries, each keeping its label
NotNullEntry(e) == ~IsNull(e.val)
dropna(s) == SelectSeq(s, NotNullEntry)

\* str(dtype) as pd.read_csv infers it from integer data
dtype(column) ==
    IF ~column.numeric THEN "object"
    ELSE IF \E p \in 1..Len(column.cells) : IsNull(column.cells[p]) THEN "float64"
    ELSE "int64"

(***************************************************************************)
(* Moments of a null-free Series, scaled to integers.                      *)
(*   N = len, S = sum, Dev(v) = N*v - S = N*(v - mean),                    *)
(*   SS = sum of Dev^2 = N^2 * sum (v - mean)^2                            *)
(***************************************************************************)
Values(s) == {s[p].val[1] : p \in 1..Len(s)}
CountOf(s, v) == Cardinality({p \in 1..Len(s) : s[p].val[1] = v})
SumOf(s) == SumFn([v \in Values(s) |-> v * CountOf(s, v)])
Dev(s, v) == Len(s) * v - SumOf(s)
SumSqDev(s) ==
    LET S == SumOf(s)
    IN SumFn([v \in Values(s) |->
                 (Len(s) * v - S) * (Len(s) * v - S) * CountOf(s, v)])

(***************************************************************************)
(* Series.quantile(q) for q = k/4, interpolation="linear", over a          *)
(* null-free Series: position q*(n-1) between order statistics.  The       *)
(* result is four times the quantile.  An empty Series gives NaN, which    *)
(* the callers see as HasQuantile = FALSE.                                 *)
(***************************************************************************)
\* the r-th smallest value, r counted from 0
OrderStat(s, r) ==
    CHOOSE v \in Values(s) :
        /\ Cardinality({p \in 1..Len(s) : s[p].val[1] < v}) <= r
        /\ r < Cardinality({p \in 1..Len(s) : s[p].val[1] <= v})

HasQuantile(s) == Len(s) > 0

\* a variant of Quantile4 that takes the lower neighbour
\* (interpolation="lower")
Quantile4_lower(s, k) == 4 * OrderStat(s, (k * (Len(s) - 1)) \div 4)

Quantile4(s, k) ==
    LET pos4 == k * (Len(s) - 1)
        lo   == pos4 \div 4
        fr   == pos4 % 4
    IN IF fr = 0 THEN 4 * OrderStat(s, lo)
       ELSE 4 * OrderStat(s, lo) + fr * (OrderStat(s, lo + 1) - OrderStat(s, lo))

\* float(Series.quantile(k/4)), skipping nulls
quantile(s, k) ==
    IF HasQuantile(dropna(s)) THEN Rat(Quantile4(dropna(s), k), 4) ELSE NaN

(***************************************************************************)
(* Descriptive statistics.  "std" holds the square of the sample standard  *)
(* deviation (N-1 denominator): the deviation itself is irrational.  skew  *)
(* and kurtosis are fractional powers of the moments and are left out.     *)
(***************************************************************************)
\* Series.mean(), skipna
mean(s) ==
    LET c == dropna(s) IN IF Len(c) = 0 THEN NaN ELSE Rat(SumOf(c), Len(c))

\* Series.std()**2, skipna, ddof=1:  SS / (N^2 * (N-1))
std_squared(s) ==
    LET c == dropna(s)
    IN IF Len(c) < 2 THEN NaN
       ELSE Rat(SumSqDev(c), Len(c) * Len(c) * (Len(c) - 1))

\* Series.min(), Series.max(), skipna
min(s) ==
    LET c == dropna(s) IN IF Len(c) = 0 THEN NaN ELSE Rat(OrderStat(c, 0), 1)
max(s) ==
    LET c == dropna(s)
    IN IF Len(c) = 0 THEN NaN ELSE Rat(OrderStat(c, Len(c) - 1), 1)

\* calculate_basic_stats / _calculate_basic_stats, one numeric column
ColumnStats(column) ==
    LET s == SeriesOf(column)
    IN [column |-> column.name,
        mean   |-> mean(s),
        std    |-> std_squared(s),
        min    |-> min(s),
        max    |-> max(s),
        median |-> quantile(s, 2),
        q1     |-> quantile(s, 1),
        q3     |-> quantile(s, 3)]

calculate_basic_stats(df) ==
    LET numeric_cols == select_dtypes(df)
    IN [i \in 1..Len(numeric_cols) |-> ColumnStats(numeric_cols[i])]

(***************************************************************************)
(* Missing values.                                                         *)
(***************************************************************************)
\* df[col].isnull().sum()
NullCount(column) ==
    Cardinality({p \in 1..Len(column.cells) : IsNull(column.cells[p])})

\* a variant of Round2 that cuts the digits off instead of rounding
Round2_truncated(n, d) == (100 * n) \div d

\* round(x, 2) of x = n/d >= 0, in hundredths, halves to even (numpy)
Round2(n, d) ==
    LET q == (100 * n) \div d
        r == (100 * n) % d
    IN IF 2 * r < d THEN q
       ELSE IF 2 * r > d THEN q + 1
       ELSE IF q % 2 = 0 THEN q ELSE q + 1

\* analyze_missing_values / _analyze_missing_values; a percentage is held
\* in hundredths of a percent
analyze_missing_values(df) ==
    [total_missing      |-> SumFn([i \in 1..Len(df) |-> NullCount(df[i])]),
     missing_per_column |->
         [i \in 1..Len(df) |-> [column |-> df[i].name, value |-> NullCount(df[i])]],
     missing_percentage |->
         [i \in 1..Len(df) |->
             [column |-> df[i].name,
              value  |-> Round2(NullCount(df[i]) * 100, NRows(df))]]]

(***************************************************************************)
(* Correlations.  A Pearson coefficient r is NaN (<<>>) or <<sgn, n, d>>   *)
(* with r = sgn * sqrt(n/d), n/d reduced: r itself is irrational.          *)
(***************************************************************************)
corr_threshold_num == 1    \* abs(r) > 0.5, as r^2 > 1/4
corr_threshold_den == 4
corr_decimals_scale == 1000   \* corr_matrix.round(3)

Sign(x) == IF x < 0 THEN -1 ELSE IF x > 0 THEN 1 ELSE 0

\* DataFrame.corr() for one pair: Pearson over the rows where both cells are
\* non-null (min_periods=1); NaN when a variance over those rows is zero.
\*   C = n*sxy - sx*sy,  VX = n*sxx - sx^2,  VY = n*syy - sy^2,
\*   r = C / sqrt(VX*VY)
Pearson(cx, cy) ==
    LET rows == {p \in 1..Len(cx.cells) :
                    ~IsNull(cx.cells[p]) /\ ~IsNull(cy.cells[p])}
        n   == Cardinality(rows)
        x   == [p \in rows |-> cx.cells[p][1]]
        y   == [p \in rows |-> cy.cells[p][1]]
        sx  == SumFn(x)
        sy  == SumFn(y)
        C   == n * SumFn([p \in rows |-> x[p] * y[p]]) - sx * sy
        VX  == n * SumFn([p \in rows |-> x[p] * x[p]]) - sx * sx
        VY  == n * SumFn([p \in rows |-> y[p] * y[p]]) - sy * sy
    IN IF n = 0 \/ VX = 0 \/ VY = 0 THEN NaN
       ELSE <<Sign(C)>> \o Rat(C * C, VX * VY)

\* numeric_df.corr()
corr(numeric_df) ==
    [i \in 1..Len(numeric_df) |->
        [j \in 1..Len(numeric_df) |-> Pearson(numeric_df[i], numeric_df[j])]]

\* abs(a) >= abs(b), both finite
AbsGeq(a, b) == FracLeq(b[2], b[3], a[2], a[3])

\* round(r, 3) in thousandths, halves to even: the largest m with
\* m - 0.5 <= 1000*|r|, i.e. (2m-1)^2 / (4*1000^2) <= n/d
RECURSIVE RoundSearch(_, _, _, _)
RoundSearch(lo, hi, n, d) ==
    IF lo = hi THEN lo
    ELSE LET mid == (lo + hi + 1) \div 2
         IN IF FracLeq((2 * mid - 1) * (2 * mid - 1),
                       4 * corr_decimals_scale * corr_decimals_scale, n, d)
            THEN RoundSearch(mid, hi, n, d)
            ELSE RoundSearch(lo, mid - 1, n, d)

Round3(r) ==
    IF IsNaN(r) THEN NaN
    ELSE LET m   == RoundSearch(0, corr_decimals_scale, r[2], r[3])
             tie == m > 0 /\ FracLeq(r[2], r[3], (2 * m - 1) * (2 * m - 1),
                                     4 * corr_decimals_scale * corr_decimals_scale)
         IN <<r[1] * (IF tie /\ m % 2 = 1 THEN m - 1 ELSE m)>>

\* a variant of IsStrong that reads the coefficient as displayed:
\* abs(round(r, 3)) > 0.5
IsStrong_on_rounded(r) ==
    /\ ~IsNaN(r)
    /\ 2 * Abs(Round3(r)[1]) > corr_decimals_scale

\* abs(r) > 0.5
IsStrong(r) ==
    ~IsNaN(r) /\ corr_threshold_den * r[2] > corr_threshold_num * r[3]

\* a variant of InsertDesc that puts an entry ahead of its equals
\* (sorted(l, key=...)[::-1])
InsertDesc_before_equals(s, e) ==
    LET k == Cardinality({i \in 1..Len(s) :
                             ~FracLeq(s[i].correlation[2], s[i].correlation[3],
                                      e.correlation[2], e.correlation[3])})
    IN SubSeq(s, 1, k) \o <<e>> \o SubSeq(s, k + 1, Len(s))

\* sorted(l, key=lambda x: abs(x["correlation"]), reverse=True): stable
InsertDesc(s, e) ==
    LET k == Cardinality({i \in 1..Len(s) : AbsGeq(s[i].correlation, e.correlation)})
    IN SubSeq(s, 1, k) \o <<e>> \o SubSeq(s, k + 1, Len(s))

RECURSIVE SortedDesc(_, _)
SortedDesc(l, k) ==
    IF k = 0 THEN <<>> ELSE InsertDesc(SortedDesc(l, k - 1), l[k])

sorted_by_abs_correlation(l) == SortedDesc(l, Len(l))

\* a variant of StrongPairs that walks the whole matrix off the diagonal
StrongPairs_full_matrix(m) ==
    LET n    == Len(m)
        grid == [k \in 1..(n * n) |-> <<((k - 1) \div n) + 1, ((k - 1) % n) + 1>>]
    IN SelectSeq(grid, LAMBDA ij : ij[1] # ij[2] /\ IsStrong(m[ij[1]][ij[2]]))

\* the pairs (i, j), i < j, with abs(corr_matrix.iloc[i, j]) > 0.5, in the
\* order of the two nested loops
StrongPairs(m) ==
    LET n    == Len(m)
        grid == [k \in 1..(n * n) |-> <<((k - 1) \div n) + 1, ((k - 1) % n) + 1>>]
    IN SelectSeq(grid, LAMBDA ij : ij[1] < ij[2] /\ IsStrong(m[ij[1]][ij[2]]))

NotEnoughMessage == "Not enough numeric columns for correlation analysis"

\* analyze_correlations / _analyze_correlations
analyze_correlations(df) ==
    LET numeric_df  == select_dtypes(df)
        corr_matrix == corr(numeric_df)
        pairs       == StrongPairs(corr_matrix)
        strong_correlations ==
            [k \in 1..Len(pairs) |->
                [column1     |-> numeric_df[pairs[k][1]].name,
                 column2     |-> numeric_df[pairs[k][2]].name,
                 correlation |-> corr_matrix[pairs[k][1]][pairs[k][2]]]]
    IN IF Len(numeric_df) < 2
       THEN [message |-> NotEnoughMessage]
       ELSE [correlation_matrix |->
                [i \in 1..Len(numeric_df) |->
                    [column |-> numeric_df[i].name,
                     values |-> [j \in 1..Len(numeric_df) |->
                                    Round3(corr_matrix[i][j])]]],
             strong_correlations |-> sorted_by_abs_correlation(strong_correlations)]

(***************************************************************************)
(* Anomaly detection.                                                      *)
(***************************************************************************)
\* np.abs(stats.zscore(s)) > z_score_threshold, by position, for a null-free
\* Series s.  zscore divides by the standard deviation with denominator
\* N - ddof; a zero deviation gives NaN, and NaN > 3 is False.
\*   |v - mean| / std > t   <=>   Dev(v)^2 * (N - ddof) > t^2 * SS
ZScoreMask(s, ddof) ==
    LET N  == Len(s)
        S  == SumOf(s)
        SS == SumSqDev(s)
    IN [p \in 1..N |->
          /\ SS > 0
          /\ N - ddof > 0
          /\ (N * s[p].val[1] - S) * (N * s[p].val[1] - S) * (N - ddof)
                > z_score_threshold * z_score_threshold * SS]

\* a variant of z_scores_mask on the sample deviation (ddof=1)
z_scores_mask_sample(s) == ZScoreMask(s, 1)

z_scores_mask(s) == ZScoreMask(s, zscore_ddof)

\* a variant of IQRMask that also flags a value on a fence (<=, >=)
IQRMask_inclusive(s, q) ==
    [p \in 1..Len(s) |->
        /\ HasQuantile(q)
        /\ ~IsNull(s[p].val)
        /\ \/ 8 * s[p].val[1] <= 2 * Quantile4(q, 1) - 3 * (Quantile4(q, 3) - Quantile4(q, 1))
           \/ 8 * s[p].val[1] >= 2 * Quantile4(q, 3) + 3 * (Quantile4(q, 3) - Quantile4(q, 1))]

\* a variant of IQRMask that tests the lower fence only
IQRMask_lower_only(s, q) ==
    [p \in 1..Len(s) |->
        /\ HasQuantile(q)
        /\ ~IsNull(s[p].val)
        /\ 8 * s[p].val[1] < 2 * Quantile4(q, 1) - 3 * (Quantile4(q, 3) - Quantile4(q, 1))]

\* (s < Q1 - 1.5*IQR) | (s > Q3 + 1.5*IQR), by position; q is the null-free
\* Series the quartiles are taken over.  A comparison with NaN (a null
\* cell, or the quartiles of an empty Series) is False.
\*   v < Q1 - 1.5*IQR   <=>   8v < 2*Q1x4 - 3*(Q3x4 - Q1x4)
IQRMask(s, q) ==
    LET Q1  == Quantile4(q, 1)
        Q3  == Quantile4(q, 3)
        IQR == Q3 - Q1
    IN [p \in 1..Len(s) |->
          /\ HasQuantile(q)
          /\ ~IsNull(s[p].val)
          /\ \/ 8 * s[p].val[1] < 2 * Q1 - 3 * IQR
             \/ 8 * s[p].val[1] > 2 * Q3 + 3 * IQR]

\* a variant of IndexWhere that answers positions, not labels
IndexWhere_positional(s, mask) ==
    LET pos == SelectSeq([p \in 1..Len(mask) |-> p], LAMBDA p : mask[p])
    IN [i \in 1..Len(pos) |-> pos[i] - 1]

\* index[mask].tolist(): the labels at the positions where the mask is True
Positions(mask) ==
    SelectSeq([p \in 1..Len(mask) |-> p], LAMBDA p : mask[p])
IndexWhere(s, mask) ==
    LET pos == Positions(mask) IN [i \in 1..Len(pos) |-> s[pos[i]].idx]

\* a variant of AnomalyResult that counts the truncated list
AnomalyResult_truncated_count(l) ==
    [count   |-> Len(SubSeq(l, 1, Min2(Len(l), IndexCap))),
     indices |-> SubSeq(l, 1, Min2(Len(l), IndexCap))]

\* {"count": len(l), "indices": l[:100]}
Take(l, n) == SubSeq(l, 1, Min2(Len(l), n))
AnomalyResult(l) == [count |-> Len(l), indices |-> Take(l, IndexCap)]

\* DataAnalyzer.detect_anomalies, the body of the loop for one column
DetectColumn(column) ==
    LET col_data == dropna(SeriesOf(column))
        z_score_anomaly_indices == IndexWhere(col_data, z_scores_mask(col_data))
        iqr_anomaly_indices == IndexWhere(col_data, IQRMask(col_data, col_data))
    IN [column            |-> column.name,
        z_score_anomalies |-> AnomalyResult(z_score_anomaly_indices),
        iqr_anomalies     |-> AnomalyResult(iqr_anomaly_indices)]

\* DataAnalyzer.detect_anomalies: one entry per numeric column, in order
detect_anomalies(df) ==
    LET numeric_cols == select_dtypes(df)
    IN [i \in 1..Len(numeric_cols) |-> DetectColumn(numeric_cols[i])]

(***************************************************************************)
(* DataAnalysisTask._detect_anomalies.  A result is                        *)
(* [raised |-> FALSE, value |-> v] or [raised |-> TRUE, error |-> message].*)
(***************************************************************************)
\* df[mask] with a positional boolean array: pandas refuses a mask whose
\* length is not the frame's ("Item wrong length"; with a scipy that hands
\* back a Series, "Unalignable boolean Series provided as indexer").
WrongLength(df, mask) == Len(mask) # NRows(df)
ItemWrongLength == "Item wrong length"

\* df.index
FrameIndex(df) == [p \in 1..NRows(df) |-> [idx |-> p - 1, val |-> Null]]

\* the body of the loop for one column; z_scores is taken over the
\* null-dropped column and applied to the whole frame
TaskDetectColumn(df, column) ==
    LET z_mask == z_scores_mask(dropna(SeriesOf(column)))
        z_score_anomalies == IndexWhere(FrameIndex(df), z_mask)
        s == SeriesOf(column)
        iqr_anomalies == IndexWhere(s, IQRMask(s, dropna(s)))
    IN IF WrongLength(df, z_mask)
       THEN [raised |-> TRUE, error |-> ItemWrongLength]
       ELSE [raised |-> FALSE,
             value  |-> [column            |-> column.name,
                         z_score_anomalies |-> AnomalyResult(z_score_anomalies),
                         iqr_anomalies     |-> AnomalyResult(iqr_anomalies)]]

Task_detect_anomalies(df) ==
    LET numeric_cols == select_dtypes(df)
        per == [i \in 1..Len(numeric_cols) |-> TaskDetectColumn(df, numeric_cols[i])]
    IN IF \E i \in 1..Len(per) : per[i].raised
       THEN [raised |-> TRUE, error |-> ItemWrongLength]
       ELSE [raised |-> FALSE, value |-> [i \in 1..Len(per) |-> per[i].value]]

(***************************************************************************)
(* DataAnalyzer.generate_visualizations: which figures are made.           *)
(***************************************************************************)
generate_visualizations(df) ==
    LET numeric_cols == select_dtypes(df)
    IN [histograms          |-> Columns(numeric_cols),
        correlation_heatmap |-> Len(numeric_cols) >= 2,
        boxplots            |-> Columns(numeric_cols)]

\* a variant of analyze that returns before the visualizations are added
analyze_without_visualizations(df) ==
    [basic_stats    |-> calculate_basic_stats(df),
     missing_values |-> analyze_missing_values(df),
     correlations   |-> analyze_correlations(df),
     anomalies      |-> detect_anomalies(df),
     metadata       |-> [rows    |-> NRows(df),
                         columns |-> Columns(df),
                         dtypes  |-> [i \in 1..Len(df) |->
                                        [column |-> df[i].name, dtype |-> dtype(df[i])]]]]

\* DataAnalyzer.analyze
analyze(df) ==
    [basic_stats    |-> calculate_basic_stats(df),
     missing_values |-> analyze_missing_values(df),
     correlations   |-> analyze_correlations(df),
     anomalies      |-> detect_anomalies(df),
     metadata       |-> [rows    |-> NRows(df),
                         columns |-> Columns(df),
                         dtypes  |-> [i \in 1..Len(df) |->
                                        [column |-> df[i].name, dtype |-> dtype(df[i])]]],
     visualizations |-> generate_visualizations(df)]

(***************************************************************************)
(* DataAnalysisTask._save_results_to_db: the rows one run adds.            *)
(***************************************************************************)
Lookup(entries, name) ==
    entries[CHOOSE i \in 1..Len(entries) : entries[i].column = name]
Has(entries, name) == \E i \in 1..Len(entries) : entries[i].column = name

\* one ReportEntry per column of the frame; the statistics only if numeric
ReportEntries(file_id, df, basic_stats, missing_values) ==
    [i \in 1..Len(df) |->
        [file_id            |-> file_id,
         column             |-> df[i].name,
         data_type          |-> dtype(df[i]),
         stats              |-> IF Has(basic_stats, df[i].name)
                                THEN <<Lookup(basic_stats, df[i].name)>> ELSE <<>>,
         missing_count      |-> Lookup(missing_values.missing_per_column, df[i].name).value,
         missing_percentage |-> Lookup(missing_values.missing_percentage, df[i].name).value]]

\* one CorrelationEntry per strong pair, if the key is there at all
CorrelationEntries(file_id, correlations) ==
    IF "strong_correlations" \in DOMAIN correlations
    THEN [k \in 1..Len(correlations.strong_correlations) |->
             [file_id     |-> file_id,
              column1     |-> correlations.strong_correlations[k].column1,
              column2     |-> correlations.strong_correlations[k].column2,
              correlation |-> correlations.strong_correlations[k].correlation]]
    ELSE <<>>

\* an AnomalyEntry per column and method with count > 0
\* a variant of AnomalyEntriesOf without the count > 0 tests
AnomalyEntriesOf_unguarded(file_id, a) ==
    << [file_id |-> file_id, column |-> a.column, method |-> "z_score",
        anomaly_indices |-> a.z_score_anomalies.indices,
        threshold |-> <<z_score_threshold>>,
        count |-> a.z_score_anomalies.count],
       [file_id |-> file_id, column |-> a.column, method |-> "iqr",
        anomaly_indices |-> a.iqr_anomalies.indices,
        threshold |-> <<>>,
        count |-> a.iqr_anomalies.count] >>

AnomalyEntriesOf(file_id, a) ==
    (IF a.z_score_anomalies.count > 0
     THEN << [file_id |-> file_id, column |-> a.column, method |-> "z_score",
              anomaly_indices |-> a.z_score_anomalies.indices,
              threshold |-> <<z_score_threshold>>,
              count |-> a.z_score_anomalies.count] >>
     ELSE <<>>)
    \o
    (IF a.iqr_anomalies.count > 0
     THEN << [file_id |-> file_id, column |-> a.column, method |-> "iqr",
              anomaly_indices |-> a.iqr_anomalies.indices,
              threshold |-> <<>>,
              count |-> a.iqr_anomalies.count] >>
     ELSE <<>>)

RECURSIVE AnomalyEntries(_, _, _)
AnomalyEntries(file_id, anomalies, k) ==
    IF k = 0 THEN <<>>
    ELSE AnomalyEntries(file_id, anomalies, k - 1)
           \o AnomalyEntriesOf(file_id, anomalies[k])

(***************************************************************************)
(* Input frames.                                                           *)
(***************************************************************************)
NumCells == {Null} \cup {<<v>> : v \in 0..MaxVal}
TextCells == {Null, <<0>>}     \* a text cell's content is never read

\* the columns with k free rows followed by pad filled rows
ColumnBodies(k, pad) ==
    {[numeric |-> TRUE, cells |-> f \o Const(pad, <<0>>)] : f \in [1..k -> NumCells]}
    \cup
    {[numeric |-> FALSE, cells |-> f \o Const(pad, <<0>>)] : f \in [1..k -> TextCells]}

Named(bodies) ==
    [i \in 1..Len(bodies) |->
        [name |-> ColumnNames[i], numeric |-> bodies[i].numeric,
         cells |-> bodies[i].cells]]

GeneratedFrames ==
    UNION {UNION {{Named(b) : b \in [1..n -> ColumnBodies(k, pad)]} :
                    k \in {j \in 0..MaxCells : n * j <= MaxCells}} :
             n \in 1..MaxCols, pad \in {0, PadLen}}

\* a frame of numeric columns named A, B, ... from their cell sequences
NumFrame(cols) ==
    [i \in 1..Len(cols) |->
        [name |-> ColumnNames[i], numeric |-> TRUE, cells |-> cols[i]]]

\* spec.md section 8: A=[1,2,3,4,100], B=[2,4,6,8,10]
ScenarioAB ==
    NumFrame(<< << <<1>>, <<2>>, <<3>>, <<4>>, <<100>> >>,
                << <<2>>, <<4>>, <<6>>, <<8>>, <<10>> >> >>)

\* spec.md section 8: [10, 20, null, 1000]
ScenarioNull ==
    NumFrame(<< << <<10>>, <<20>>, Null, <<1000>> >> >>)

\* [10, 10, 10, 10, null, 1000]: an outlier behind a null
ScenarioShift ==
    NumFrame(<< << <<10>>, <<10>>, <<10>>, <<10>>, Null, <<1000>> >> >>)

\* [0, 1, 1, 2]: Q1 = 0.75, Q3 = 1.25, so 0 and 2 sit on the fences
ScenarioFence ==
    NumFrame(<< << <<0>>, <<1>>, <<1>>, <<2>> >> >>)

\* [0, 1, 2] above ten zeros: row 2 has z = 3.07 with the N denominator
\* and 2.95 with N - 1
ScenarioDdof ==
    NumFrame(<< << <<0>>, <<1>>, <<2>> >> \o Const(10, <<0>>) >>)

ScenarioFrames ==
    {ScenarioAB, ScenarioNull, ScenarioShift, ScenarioFence, ScenarioDdof}

\* frames with more than IndexCap flagged rows:
\*   m ones over 3m+1 zeros      -> Q1 = Q3 = 0, the IQR method flags m rows
\*   h ones, h minus-ones, 16h+1 zeros -> both methods flag 2h rows
BigIQR(m) == NumFrame(<< Const(m, <<1>>) \o Const(3 * m + 1, <<0>>) >>)
BigZ(h) ==
    NumFrame(<< Const(h, <<1>>) \o Const(h, <<-1>>) \o Const(16 * h + 1, <<0>>) >>)

LargeFrames ==
    {BigIQR(IndexCap), BigIQR(IndexCap + 1), BigZ(IndexCap \div 2 + 1)}

\* frames for the correlation threshold and the order of strong pairs
\*   ScenarioNear: r(A,B) = sqrt(729/2914) = 0.50017..., shown as 0.5;
\*                 r(C,D) = sqrt(128/513)  = 0.49951..., shown as 0.5
\*   ScenarioHalf: r(A,B) = 0.5 and r(C,D) = -0.5 exactly
\*   ScenarioTies: C = -B and D = -A, so |r| repeats across pairs
ScenarioNear ==
    NumFrame(<< << <<5>>, <<0>>, <<0>>, <<0>>, <<1>> >>,
                << <<5>>, <<5>>, <<0>>, <<1>>, <<5>> >>,
                << <<4>>, <<0>>, <<1>>, <<3>>, <<1>> >>,
                << <<4>>, <<0>>, <<3>>, <<0>>, <<0>> >> >>)

ScenarioHalf ==
    NumFrame(<< << <<3>>, <<2>>, <<3>>, <<0>>, <<2>> >>,
                << <<0>>, <<1>>, <<3>>, <<0>>, <<1>> >>,
                << <<1>>, <<0>>, <<1>>, <<1>>, <<2>> >>,
                << <<2>>, <<2>>, <<2>>, <<3>>, <<1>> >> >>)

ScenarioTies ==
    NumFrame(<< << <<0>>, <<0>>, <<1>>, <<1>> >>,
                << <<0>>, <<1>>, <<1>>, <<2>> >>,
                << <<0>>, <<-1>>, <<-1>>, <<-2>> >>,
                << <<0>>, <<0>>, <<-1>>, <<-1>> >> >>)

CorrelationFrames == {ScenarioNear, ScenarioHalf, ScenarioTies}

\* a text column with a null beside a numeric column whose quartiles fall
\* between its values: Q1 = 1.75, median = 3, Q3 = 5
ScenarioMixed ==
    << [name |-> "A", numeric |-> FALSE, cells |-> << <<0>>, Null, <<0>>, <<0>> >>],
       [name |-> "B", numeric |-> TRUE,  cells |-> << <<8>>, <<1>>, <<4>>, <<2>> >>] >>

Frames ==
    GeneratedFrames \cup ScenarioFrames \cup LargeFrames \cup CorrelationFrames
        \cup {ScenarioMixed}

(***************************************************************************)
(* State.                                                                  *)
(***************************************************************************)
MaxClock == 1     \* the clock runs over 0..MaxClock

FileName == "data.csv"
CommitFailed == "commit failed"

VARIABLES
    df,                 \* the parsed CSV
    clock,              \* datetime.now()
    apc,                \* DataAnalyzer: "new", "ready", "raised", "done"
    aresult,            \* what DataAnalyzer.analyze returned: <<>> or <<profile>>
    tpc,                \* DataAnalysisTask.analyze: "start", "processing",
                        \*   "saved", "returned", "raised"
    tlocal,             \* its locals after the analyses: <<>> or <<results>>
    tresult,            \* what it returned: <<>> or <<profile>>
    uploaded_files,     \* committed UploadedFile rows
    file_reports,       \* committed ReportEntry rows
    correlation_rows,   \* committed CorrelationEntry rows
    anomaly_rows,       \* committed AnomalyEntry rows
    aprev,              \* what the previous DataAnalyzer run returned
    tprev,              \* what the previous DataAnalysisTask run returned
    s3,                 \* the objects of the bucket under analysis_results/
    archival,           \* upload_old_analyses_task: <<>>, or <<how its last
                        \*   run ended>>
    response            \* the last answer of GET /analysis/{filename}:
                        \*   <<>> or <<answer>>

db == <<uploaded_files, file_reports, correlation_rows, anomaly_rows>>
task == <<tpc, tlocal, tresult>>
history == <<aprev, tprev>>
service == <<s3, archival, response>>
vars == <<df, clock, apc, aresult, tpc, tlocal, tresult,
          uploaded_files, file_reports, correlation_rows, anomaly_rows,
          aprev, tprev, s3, archival, response>>

\* nothing has run yet
Started ==
    /\ clock = 0
    /\ apc = "new"
    /\ aresult = <<>>
    /\ tpc = "start"
    /\ tlocal = <<>>
    /\ tresult = <<>>
    /\ uploaded_files = <<>>
    /\ file_reports = <<>>
    /\ correlation_rows = <<>>
    /\ anomaly_rows = <<>>
    /\ aprev = <<>>
    /\ tprev = <<>>
    /\ archival = <<>>
    /\ response = <<>>

Init ==
    /\ df \in Frames
    /\ s3 = {}
    /\ Started

Tick ==
    /\ clock < MaxClock
    /\ clock' = clock + 1
    /\ UNCHANGED <<service, history, df, apc, aresult, task, db>>

\* DataAnalyzer.__init__: raise ValueError("DataFrame is empty")
DataAnalyzerInit ==
    /\ apc = "new"
    /\ apc' = IF Empty(df) THEN "raised" ELSE "ready"
    /\ UNCHANGED <<service, history, df, clock, aresult, task, db>>

\* DataAnalyzer.analyze
DataAnalyzerAnalyze ==
    /\ apc = "ready"
    /\ aresult' = <<analyze(df)>>
    /\ apc' = "done"
    /\ UNCHANGED <<service, history, df, clock, task, db>>

\* DataAnalysisTask.analyze up to the refresh after its first commit: read,
\* validate, add the UploadedFile as "processing"; commit_ok and refresh_ok
\* are whether the commit and the refresh go through, a raise of either
\* leaving analyze through the outer except
TaskStart ==
    /\ tpc = "start"
    /\ IF Empty(df)
       THEN /\ tpc' = "raised"
            /\ UNCHANGED uploaded_files
       ELSE \E commit_ok \in BOOLEAN, refresh_ok \in BOOLEAN :
              IF commit_ok
              THEN /\ tpc' = IF refresh_ok THEN "processing" ELSE "raised"
                   /\ uploaded_files' = Append(uploaded_files,
                          [id                    |-> Len(uploaded_files) + 1,
                           original_filename     |-> FileName,
                           status                |-> "processing",
                           error_message         |-> <<>>,
                           row_count             |-> NRows(df),
                           column_count          |-> Len(df),
                           upload_time           |-> clock,
                           analysis_completed_at |-> <<>>])
              ELSE /\ tpc' = "raised"
                   /\ UNCHANGED uploaded_files
    /\ UNCHANGED <<service, history, df, clock, apc, aresult, tlocal, tresult,
                   file_reports, correlation_rows, anomaly_rows>>

\* a variant of Fail in which the rows added before the failure were not
\* rolled back, so that the commit of the status carries them along
Fail_without_rollback(file_id, message) ==
    /\ uploaded_files' = [uploaded_files EXCEPT
                            ![file_id].status = "failed",
                            ![file_id].error_message = <<message>>]
    /\ file_reports' = file_reports \o
          ReportEntries(file_id, df, calculate_basic_stats(df),
                        analyze_missing_values(df))
    /\ tpc' = "raised"
    /\ UNCHANGED <<tlocal, correlation_rows, anomaly_rows>>

\* the except branch: file_entry.status = "failed", commit, raise; when the
\* commit raises instead, the entry stays as it was committed last
Fail(file_id, message) ==
    /\ \E commit_ok \in BOOLEAN :
          uploaded_files' = IF commit_ok
                            THEN [uploaded_files EXCEPT
                                    ![file_id].status = "failed",
                                    ![file_id].error_message = <<message>>]
                            ELSE uploaded_files
    /\ tpc' = "raised"
    /\ UNCHANGED <<tlocal, file_reports, correlation_rows, anomaly_rows>>

\* the four analyses and _save_results_to_db, up to the commit of the
\* result rows; commit_ok is whether that commit goes through
TaskAnalyseAndSave ==
    /\ tpc = "processing"
    /\ LET file_id        == Len(uploaded_files)
           basic_stats    == calculate_basic_stats(df)
           missing_values == analyze_missing_values(df)
           correlations   == analyze_correlations(df)
           anomalies      == Task_detect_anomalies(df)
       IN IF anomalies.raised
          THEN Fail(file_id, anomalies.error)
          ELSE \E commit_ok \in BOOLEAN :
                 IF commit_ok
                 THEN /\ file_reports' = file_reports \o
                            ReportEntries(file_id, df, basic_stats, missing_values)
                      /\ correlation_rows' = correlation_rows \o
                            CorrelationEntries(file_id, correlations)
                      /\ anomaly_rows' = anomaly_rows \o
                            AnomalyEntries(file_id, anomalies.value, Len(anomalies.value))
                      /\ tlocal' = << [basic_stats    |-> basic_stats,
                                       missing_values |-> missing_values,
                                       correlations   |-> correlations,
                                       anomalies      |-> anomalies.value] >>
                      /\ tpc' = "saved"
                      /\ UNCHANGED uploaded_files
                 ELSE Fail(file_id, CommitFailed)
    /\ UNCHANGED <<service, history, df, clock, apc, aresult, tresult>>

\* a variant of TaskComplete whose profile also names the file entry of the run
TaskComplete_with_file_id ==
    /\ tpc = "saved"
    /\ \E commit_ok \in BOOLEAN :
          IF commit_ok
          THEN /\ uploaded_files' = [uploaded_files EXCEPT
                     ![Len(uploaded_files)].status = "completed",
                     ![Len(uploaded_files)].analysis_completed_at = <<clock>>]
               /\ tresult' = << [basic_stats    |-> tlocal[1].basic_stats,
                                 missing_values |-> tlocal[1].missing_values,
                                 correlations   |-> tlocal[1].correlations,
                                 anomalies      |-> tlocal[1].anomalies,
                                 timestamp      |-> clock,
                                 file_id        |-> Len(uploaded_files),
                                 file_name      |-> FileName,
                                 rows           |-> NRows(df),
                                 columns        |-> Columns(df)] >>
               /\ tpc' = "returned"
               /\ UNCHANGED <<tlocal, file_reports, correlation_rows, anomaly_rows>>
          ELSE /\ Fail(Len(uploaded_files), CommitFailed)
               /\ UNCHANGED tresult
    /\ UNCHANGED <<service, history, df, clock, apc, aresult>>

\* status = "completed", commit, return the profile; a raise of the commit
\* is caught by the except branch
TaskComplete ==
    /\ tpc = "saved"
    /\ \E commit_ok \in BOOLEAN :
          IF commit_ok
          THEN /\ uploaded_files' = [uploaded_files EXCEPT
                     ![Len(uploaded_files)].status = "completed",
                     ![Len(uploaded_files)].analysis_completed_at = <<clock>>]
               /\ tresult' = << [basic_stats    |-> tlocal[1].basic_stats,
                                 missing_values |-> tlocal[1].missing_values,
                                 correlations   |-> tlocal[1].correlations,
                                 anomalies      |-> tlocal[1].anomalies,
                                 timestamp      |-> clock,
                                 file_name      |-> FileName,
                                 rows           |-> NRows(df),
                                 columns        |-> Columns(df)] >>
               /\ tpc' = "returned"
               /\ UNCHANGED <<tlocal, file_reports, correlation_rows, anomaly_rows>>
          ELSE /\ Fail(Len(uploaded_files), CommitFailed)
               /\ UNCHANGED tresult
    /\ UNCHANGED <<service, history, df, clock, apc, aresult>>

Next ==
    \/ Tick
    \/ DataAnalyzerInit
    \/ DataAnalyzerAnalyze
    \/ TaskStart
    \/ TaskAnalyseAndSave
    \/ TaskComplete

Spec == Init /\ [][Next]_vars

(***************************************************************************)
(* Running the profile again over the same file.  Each call of             *)
(* analyze_file builds a new DataAnalyzer, each call of                    *)
(* analyze_file_background a new DataAnalysisTask; the database keeps the  *)
(* rows of the earlier runs.                                               *)
(***************************************************************************)
MaxRuns == 2      \* runs of DataAnalysisTask over the file

\* the frames that are profiled more than once
RepeatFrames ==
    ScenarioFrames \cup CorrelationFrames \cup {ScenarioMixed}
        \cup {frame \in GeneratedFrames : Empty(frame)}

\* analyze_file called again: the caller keeps the earlier result
DataAnalyzerAgain ==
    /\ apc \in {"done", "raised"}
    /\ aprev' = IF aresult = <<>> THEN aprev ELSE aresult
    /\ aresult' = <<>>
    /\ apc' = "new"
    /\ UNCHANGED <<service, df, clock, task, db, tprev>>

\* analyze_file_background called again: the caller keeps the earlier result
TaskAgain ==
    /\ tpc \in {"returned", "raised"}
    /\ Len(uploaded_files) < MaxRuns
    /\ tprev' = IF tresult = <<>> THEN tprev ELSE tresult
    /\ tresult' = <<>>
    /\ tlocal' = <<>>
    /\ tpc' = "start"
    /\ UNCHANGED <<service, df, clock, apc, aresult, db, aprev>>

InitTwice == Init /\ df \in RepeatFrames

NextTwice ==
    \/ Next
    \/ DataAnalyzerAgain
    \/ TaskAgain

SpecTwice == InitTwice /\ [][NextTwice]_vars

(***************************************************************************)
(* The service around the task: the bucket, GET /analysis/{filename} and   *)
(* the periodic upload_old_analyses_task.  A file name is spelled out so   *)
(* that `filename in obj['Key']` is the substring test it is.              *)
(***************************************************************************)
OtherName == "a.csv"          \* a name that occurs inside FileName
MissingName == "none.csv"     \* a name nothing was stored under
RequestNames == {FileName, OtherName, MissingName}

Spelling(name) ==
    CASE name = "data.csv" -> <<"d", "a", "t", "a", ".", "c", "s", "v">>
      [] name = "a.csv"    -> <<"a", ".", "c", "s", "v">>
      [] name = "none.csv" -> <<"n", "o", "n", "e", ".", "c", "s", "v">>

\* a in b, for strings
IsInfix(a, b) ==
    \E i \in 0..(Len(b) - Len(a)) : SubSeq(b, i + 1, i + Len(a)) = a

\* f"analysis_results/{timestamp}_{file_entry.original_filename}.json"
s3_key(timestamp, original_filename) ==
    <<"analysis_results/", ToString(timestamp), "_">> \o Spelling(original_filename)
        \o <<".json">>

\* an object of the bucket holding the document of an analysis of FileName
ArchivedObject(timestamp) ==
    [Key          |-> s3_key(timestamp, FileName),
     LastModified |-> timestamp,
     Body         |-> [metadata |-> [file_name |-> FileName,
                                     timestamp |-> timestamp]]]

\* what the bucket may hold when the service starts
Buckets == {{}, {ArchivedObject(0), ArchivedObject(1)}}

\* get_analysis_from_s3: None (<<>>) or the document last modified among
\* the objects whose key contains the file name; s3_ok is whether the
\* listing and the read go through
get_analysis_from_s3(filename, s3_ok) ==
    LET matching_files == {obj \in s3 : IsInfix(Spelling(filename), obj.Key)}
    IN IF ~s3_ok \/ matching_files = {}
       THEN <<>>
       ELSE LET latest_file == CHOOSE obj \in matching_files :
                                  \A other \in matching_files :
                                      other.LastModified <= obj.LastModified
            IN <<latest_file.Body>>

\* db.query(Entry).filter(Entry.file_id == file_entry.id).all()
query_all(table, file_id) == SelectSeq(table, LAMBDA row : row.file_id = file_id)

\* the VisualizationEntry rows of a file: no code stores any
VisualizationRows(file_id) == <<>>

\* the columns of the AnomalyEntry rows, each once, in the order met
RECURSIVE AnomalyColumns(_, _)
AnomalyColumns(anomalies, k) ==
    IF k = 0 THEN <<>>
    ELSE LET before == AnomalyColumns(anomalies, k - 1)
         IN IF \E j \in 1..Len(before) : before[j] = anomalies[k].column
            THEN before
            ELSE Append(before, anomalies[k].column)

\* the last row of a column and method, or the default of the dictionary
AnomalyOf(anomalies, column, is_z_score) ==
    LET rows == SelectSeq(anomalies,
                    LAMBDA row : /\ row.column = column
                                 /\ (row.method = "z_score") = is_z_score)
    IN IF rows = <<>>
       THEN [count |-> 0, indices |-> <<>>]
       ELSE [count   |-> rows[Len(rows)].count,
             indices |-> rows[Len(rows)].anomaly_indices]

\* main.format_analysis_results
format_analysis_results(file_entry, reports, correlations, anomalies, visualizations) ==
    LET numeric == SelectSeq(reports, LAMBDA report : report.stats # <<>>)
        columns == AnomalyColumns(anomalies, Len(anomalies))
    IN [basic_stats    |-> [i \in 1..Len(numeric) |-> numeric[i].stats[1]],
        missing_values |->
            [total_missing      |-> SumFn([i \in 1..Len(reports) |->
                                              reports[i].missing_count]),
             missing_per_column |-> [i \in 1..Len(reports) |->
                                       [column |-> reports[i].column,
                                        value  |-> reports[i].missing_count]],
             missing_percentage |-> [i \in 1..Len(reports) |->
                                       [column |-> reports[i].column,
                                        value  |-> reports[i].missing_percentage]]],
        correlations   |->
            [strong_correlations |-> sorted_by_abs_correlation(
                [i \in 1..Len(correlations) |->
                    [column1     |-> correlations[i].column1,
                     column2     |-> correlations[i].column2,
                     correlation |-> correlations[i].correlation]])],
        anomalies      |-> [i \in 1..Len(columns) |->
                              [column            |-> columns[i],
                               z_score_anomalies |-> AnomalyOf(anomalies, columns[i], TRUE),
                               iqr_anomalies     |-> AnomalyOf(anomalies, columns[i], FALSE)]],
        visualizations |-> [histograms          |-> visualizations,
                            correlation_heatmap |-> <<>>,
                            boxplots            |-> visualizations],
        timestamp      |-> file_entry.analysis_completed_at,
        file_name      |-> file_entry.original_filename,
        rows           |-> file_entry.row_count,
        columns        |-> [i \in 1..Len(reports) |-> reports[i].column],
        source         |-> "database",
        status         |-> "completed"]

hours_threshold == 3          \* upload_old_analyses(hours_threshold=3)
HoursPerTick == 2 * hours_threshold   \* the clock counts in steps of six hours

NoAstimezone ==
    "Neither 'InstrumentedAttribute' object nor 'Comparator' object associated with UploadedFile.analysis_completed_at has an attribute 'astimezone'"

\* a variant of UploadOldAnalyses that deletes every completed entry and its
\* rows, whatever its age
UploadOldAnalyses_every_completed ==
    LET kept(row) == \E i \in 1..Len(uploaded_files) :
                        /\ uploaded_files[i].id = row.file_id
                        /\ uploaded_files[i].status # "completed"
    IN /\ archival' = <<[error       |-> <<>>,
                         cutoff_time |-> clock * HoursPerTick - hours_threshold]>>
       /\ uploaded_files' = SelectSeq(uploaded_files,
                                LAMBDA entry : entry.status # "completed")
       /\ file_reports' = SelectSeq(file_reports, kept)
       /\ correlation_rows' = SelectSeq(correlation_rows, kept)
       /\ anomaly_rows' = SelectSeq(anomaly_rows, kept)
       /\ UNCHANGED <<df, clock, apc, aresult, task, history, s3, response>>

\* upload_old_analyses_task: upload_old_analyses computes its cutoff and
\* raises while it builds the query, since a mapped column has no
\* astimezone; nothing was read, put or deleted, the session is closed and
\* the task logs the error
UploadOldAnalyses ==
    /\ archival' = <<[error       |-> <<NoAstimezone>>,
                      cutoff_time |-> clock * HoursPerTick - hours_threshold]>>
    /\ UNCHANGED <<df, clock, apc, aresult, task, db, history, s3, response>>

NotFound == "Analysis not found in database or S3"
AnalysisFailed == "Analysis failed: "
QueryFailed == "query failed"

\* HTTPException(status_code, detail) leaving the handler through
\* `except Exception as e: raise HTTPException(500, detail=str(e))`:
\* str(e) is "{status_code}: {detail}" where HTTPException defines
\* __str__ and the empty string where it does not
Rewrapped(status_code, detail, has_str) ==
    [status_code |-> 500,
     detail      |-> IF has_str THEN <<ToString(status_code)>> \o detail ELSE <<>>]

\* the entries of the name with the latest upload_time
LatestEntries(filename) ==
    {i \in 1..Len(uploaded_files) :
        /\ uploaded_files[i].original_filename = filename
        /\ \A j \in 1..Len(uploaded_files) :
              uploaded_files[j].original_filename = filename
                  => uploaded_files[j].upload_time <= uploaded_files[i].upload_time}

\* what get_analysis leaves behind: the entry it found, what S3 gave it,
\* and its answer
Answer(filename, file_entry, s3_data, status_code, content) ==
    [filename |-> filename, file_entry |-> file_entry, s3_data |-> s3_data,
     status_code |-> status_code, content |-> content]

\* main.get_analysis; the first disjunct is a query of the database raising
GetAnalysis ==
    /\ \E filename \in RequestNames :
          \/ response' = << Answer(filename, <<>>, <<>>, 500,
                                   [detail |-> <<QueryFailed>>]) >>
          \/ /\ LatestEntries(filename) # {}
             /\ \E i \in LatestEntries(filename) :
                   LET file_entry == uploaded_files[i]
                   IN CASE file_entry.status = "failed" ->
                             \E has_str \in BOOLEAN :
                                response' = << Answer(filename, <<file_entry>>, <<>>, 500,
                                    [detail |-> Rewrapped(500,
                                        <<AnalysisFailed>> \o file_entry.error_message,
                                        has_str).detail]) >>
                        [] file_entry.status = "processing" ->
                             response' = << Answer(filename, <<file_entry>>, <<>>, 200,
                                 [status  |-> "processing",
                                  message |-> "Analysis in progress"]) >>
                        [] OTHER ->
                             response' = << Answer(filename, <<file_entry>>, <<>>, 200,
                                 format_analysis_results(file_entry,
                                     query_all(file_reports, file_entry.id),
                                     query_all(correlation_rows, file_entry.id),
                                     query_all(anomaly_rows, file_entry.id),
                                     VisualizationRows(file_entry.id))) >>
          \/ /\ LatestEntries(filename) = {}
             /\ \E s3_ok \in BOOLEAN :
                   LET s3_data == get_analysis_from_s3(filename, s3_ok)
                   IN IF s3_data # <<>>
                      THEN response' = << Answer(filename, <<>>, s3_data, 200,
                              [document |-> s3_data[1], source |-> "s3",
                               status |-> "completed"]) >>
                      ELSE \E has_str \in BOOLEAN :
                              response' = << Answer(filename, <<>>, <<>>, 500,
                                  [detail |-> Rewrapped(404, <<NotFound>>,
                                                        has_str).detail]) >>
    /\ UNCHANGED <<df, clock, apc, aresult, task, db, history, s3, archival>>

\* the files the service is given
ServiceFrames == {ScenarioAB, ScenarioNull}

InitService ==
    /\ df \in ServiceFrames
    /\ s3 \in Buckets
    /\ Started

\* the analyses beside the periodic upload_old_analyses_task
NextArchival ==
    \/ Tick
    \/ TaskStart
    \/ TaskAnalyseAndSave
    \/ TaskComplete
    \/ TaskAgain
    \/ UploadOldAnalyses

SpecArchival == InitService /\ [][NextArchival]_vars

\* the analyses beside the requests for their results
NextLookup ==
    \/ Tick
    \/ TaskStart
    \/ TaskAnalyseAndSave
    \/ TaskComplete
    \/ TaskAgain
    \/ GetAnalysis

SpecLookup == InitService /\ [][NextLookup]_vars


(***************************************************************************)
(* What the properties are stated in: the rows of a column, read straight  *)
(* from the frame.  A row identifier is the 0-based row number; nothing    *)
(* here goes through dropna, a Series or a mask.                           *)
(***************************************************************************)
RECURSIVE SumRange(_, _, _)
SumRange(f, lo, hi) ==
    IF lo > hi THEN 0
    ELSE IF lo = hi THEN f[lo]
    ELSE SumRange(f, lo, (lo + hi) \div 2) + SumRange(f, (lo + hi) \div 2 + 1, hi)

RowIds(column) == 0..(Len(column.cells) - 1)
HasValue(column, r) == ~IsNull(column.cells[r + 1])
ValueAt(column, r) == column.cells[r + 1][1]
NonNullRows(column) == {r \in RowIds(column) : HasValue(column, r)}
HasNull(column) == \E r \in RowIds(column) : ~HasValue(column, r)

\* the rows r with |value - mean| / std > 3, std taken with denominator
\* N - ddof over the non-null values
ZOutliers(column, ddof) ==
    LET n  == Len(column.cells)
        N  == Cardinality(NonNullRows(column))
        v  == [p \in 1..n |-> IF IsNull(column.cells[p]) THEN 0 ELSE column.cells[p][1]]
        S  == SumRange(v, 1, n)
        sq == [p \in 1..n |-> IF IsNull(column.cells[p]) THEN 0
                              ELSE (N * v[p] - S) * (N * v[p] - S)]
        SS == SumRange(sq, 1, n)
    IN {r \in NonNullRows(column) :
          /\ SS > 0
          /\ N - ddof > 0
          /\ sq[r + 1] * (N - ddof) > 9 * SS}

\* the non-null values in ascending order: each distinct value, lowest
\* first, as many times as it occurs
RECURSIVE Ascending(_, _)
Ascending(column, values) ==
    IF values = {} THEN <<>>
    ELSE LET lowest == CHOOSE v \in values : \A w \in values : v <= w
             times  == Cardinality({r \in NonNullRows(column) :
                                      ValueAt(column, r) = lowest})
         IN Const(times, lowest) \o Ascending(column, values \ {lowest})

NonNullValues(column) == {ValueAt(column, r) : r \in NonNullRows(column)}

\* four times the percentile 25*k by linear interpolation between the
\* order statistics of the non-null values (which must exist)
Percentile4(column, k) ==
    LET sorted == Ascending(column, NonNullValues(column))
        n      == Len(sorted)
        lo     == (k * (n - 1)) \div 4
        hi     == IF lo + 1 < n THEN lo + 1 ELSE lo
    IN 4 * sorted[lo + 1] + ((k * (n - 1)) % 4) * (sorted[hi + 1] - sorted[lo + 1])

\* eight times the fences Q1 - 1.5*IQR and Q3 + 1.5*IQR
LowerFence8(column) ==
    2 * Percentile4(column, 1) - 3 * (Percentile4(column, 3) - Percentile4(column, 1))
UpperFence8(column) ==
    2 * Percentile4(column, 3) + 3 * (Percentile4(column, 3) - Percentile4(column, 1))

\* the rows strictly outside the fences
IQROutliers(column) ==
    IF NonNullRows(column) = {} THEN {}
    ELSE LET lower == LowerFence8(column)
             upper == UpperFence8(column)
         IN {r \in NonNullRows(column) :
               8 * ValueAt(column, r) < lower \/ 8 * ValueAt(column, r) > upper}

Range(l) == {l[i] : i \in 1..Len(l)}
StrictlyAscending(l) == \A i \in 1..(Len(l) - 1) : l[i] < l[i + 1]

NumericColumns(frame) == {i \in 1..Len(frame) : frame[i].numeric}
ColumnNamed(frame, name) == frame[CHOOSE i \in 1..Len(frame) : frame[i].name = name]

\* the anomaly results at hand: DataAnalyzer's once analyze has returned,
\* the task's once its analyses have run
AnalyzerAnomalies == IF aresult = <<>> THEN <<>> ELSE aresult[1].anomalies
TaskAnomalies == IF tlocal = <<>> THEN <<>> ELSE tlocal[1].anomalies
AllAnomalies == AnalyzerAnomalies \o TaskAnomalies

\* the task's file entry has failed on the boolean-mask lookup
TaskRaisedWrongLength ==
    \E i \in 1..Len(uploaded_files) :
        /\ uploaded_files[i].status = "failed"
        /\ uploaded_files[i].error_message = <<ItemWrongLength>>

(***************************************************************************)
(* C1.  Every index DataAnalyzer.detect_anomalies reports, under either    *)
(* method, is the original row number of a non-null cell of that column    *)
(* holding an outlying value: dropping the nulls shifts no reported index  *)
(* and no null row is reported.                                            *)
(***************************************************************************)
C1_OriginalRowIds ==
    \A k \in 1..Len(AnalyzerAnomalies) :
        LET e    == AnalyzerAnomalies[k]
            col  == ColumnNamed(df, e.column)
            zout == ZOutliers(col, 0)
            iout == IQROutliers(col)
        IN /\ \A r \in Range(e.z_score_anomalies.indices) :
                 r \in RowIds(col) /\ HasValue(col, r) /\ r \in zout
           /\ \A r \in Range(e.iqr_anomalies.indices) :
                 r \in RowIds(col) /\ HasValue(col, r) /\ r \in iout

\* a column with a null above a row that both methods report
C1_Witness ==
    /\ apc = "done"
    /\ \E k \in 1..Len(AnalyzerAnomalies) :
          LET e   == AnalyzerAnomalies[k]
              col == ColumnNamed(df, e.column)
          IN \E r \in Range(e.z_score_anomalies.indices) :
                /\ r \in Range(e.iqr_anomalies.indices)
                /\ \E q \in RowIds(col) : q < r /\ ~HasValue(col, q)

(***************************************************************************)
(* C2.  DataAnalysisTask._detect_anomalies never raises on a non-empty     *)
(* frame and returns, column by column, what DataAnalyzer.detect_anomalies *)
(* returns for the same frame.                                             *)
(***************************************************************************)
C2_TaskMatchesAnalyzer ==
    /\ ~TaskRaisedWrongLength
    /\ (aresult # <<>> /\ tlocal # <<>>) => TaskAnomalies = AnalyzerAnomalies

\* the part of C2 the code does keep: whenever the task's detection returns,
\* it returns what DataAnalyzer returns
C2_AgreeWhenReturned ==
    (aresult # <<>> /\ tlocal # <<>>) => TaskAnomalies = AnalyzerAnomalies

(***************************************************************************)
(* C3.  For every numeric column and each method, count is the number of   *)
(* flagged rows, untruncated, and indices is the first min(count, 100) of  *)
(* them in row order; so count >= len(indices), len(indices) <= 100, and   *)
(* count = len(indices) whenever count <= 100.                             *)
(***************************************************************************)
CountAndIndices(a, flagged) ==
    /\ a.count = Cardinality(flagged)
    /\ Len(a.indices) = (IF a.count < 100 THEN a.count ELSE 100)
    /\ StrictlyAscending(a.indices)
    /\ Range(a.indices) \subseteq flagged
    /\ \A r \in flagged \ Range(a.indices) : \A i \in Range(a.indices) : i < r
    /\ a.count >= Len(a.indices)
    /\ Len(a.indices) <= 100
    /\ a.count <= 100 => a.count = Len(a.indices)

C3_CountAndIndices ==
    \A k \in 1..Len(AllAnomalies) :
        LET e   == AllAnomalies[k]
            col == ColumnNamed(df, e.column)
        IN /\ CountAndIndices(e.z_score_anomalies, ZOutliers(col, 0))
           /\ CountAndIndices(e.iqr_anomalies, IQROutliers(col))

\* both methods flag more than 100 rows, in both pipelines
C3_Witness ==
    /\ aresult # <<>>
    /\ tlocal # <<>>
    /\ \A k \in 1..Len(AllAnomalies) :
          /\ AllAnomalies[k].z_score_anomalies.count > 100
          /\ AllAnomalies[k].iqr_anomalies.count > 100
          /\ Len(AllAnomalies[k].z_score_anomalies.indices) = 100
          /\ Len(AllAnomalies[k].iqr_anomalies.indices) = 100

(***************************************************************************)
(* C4.  As claimed: the Z-score method flags exactly the non-null rows     *)
(* with |value - mean| / std > 3.0, std the sample standard deviation      *)
(* (N-1 denominator).                                                      *)
(***************************************************************************)
ZFlagsExactly(a, flagged) ==
    /\ a.count = Cardinality(flagged)
    /\ Range(a.indices) \subseteq flagged
    /\ a.count <= 100 => Range(a.indices) = flagged

C4_SampleStd ==
    \A k \in 1..Len(AnalyzerAnomalies) :
        LET e == AnalyzerAnomalies[k]
        IN ZFlagsExactly(e.z_score_anomalies, ZOutliers(ColumnNamed(df, e.column), 1))

(***************************************************************************)
(* C4, amended.  The Z-score method flags exactly the non-null rows with   *)
(* |value - mean| / std > 3.0, std the population standard deviation (N    *)
(* denominator) of the non-null values; the task's method does so whenever *)
(* it returns, which is when no numeric column holds a null.               *)
(***************************************************************************)
C4_PopulationStd ==
    /\ \A k \in 1..Len(AllAnomalies) :
          LET e == AllAnomalies[k]
          IN ZFlagsExactly(e.z_score_anomalies, ZOutliers(ColumnNamed(df, e.column), 0))
    /\ tlocal # <<>> => \A i \in NumericColumns(df) : ~HasNull(df[i])

\* a column on which the two deviations disagree, reported by both pipelines
C4_Witness ==
    /\ aresult # <<>>
    /\ tlocal # <<>>
    /\ \E k \in 1..Len(AnalyzerAnomalies) :
          LET e   == AnalyzerAnomalies[k]
              col == ColumnNamed(df, e.column)
          IN /\ e.z_score_anomalies.count > 0
             /\ ZOutliers(col, 0) # ZOutliers(col, 1)

(***************************************************************************)
(* C5.  The IQR method flags exactly the non-null rows strictly below      *)
(* Q1 - 1.5*IQR or strictly above Q3 + 1.5*IQR, Q1 and Q3 the 25th and     *)
(* 75th percentiles by linear interpolation over the non-null values; a    *)
(* value on a fence is not flagged.                                        *)
(***************************************************************************)
C5_IQRFences ==
    \A k \in 1..Len(AllAnomalies) :
        LET e       == AllAnomalies[k]
            flagged == IQROutliers(ColumnNamed(df, e.column))
        IN /\ e.iqr_anomalies.count = Cardinality(flagged)
           /\ Range(e.iqr_anomalies.indices) \subseteq flagged
           /\ e.iqr_anomalies.count <= 100 => Range(e.iqr_anomalies.indices) = flagged

\* a column with IQR > 0 and a value on a fence, which is not reported
C5_Witness ==
    /\ aresult # <<>>
    /\ tlocal # <<>>
    /\ \E k \in 1..Len(AnalyzerAnomalies) :
          LET e   == AnalyzerAnomalies[k]
              col == ColumnNamed(df, e.column)
          IN \E r \in NonNullRows(col) :
                /\ Percentile4(col, 3) > Percentile4(col, 1)
                /\ \/ 8 * ValueAt(col, r) = LowerFence8(col)
                   \/ 8 * ValueAt(col, r) = UpperFence8(col)
                /\ r \notin Range(e.iqr_anomalies.indices)

(***************************************************************************)
(* C6.  As claimed: for A=[1,2,3,4,100], B=[2,4,6,8,10], column A has      *)
(* exactly one outlier, row 4, under the IQR method and under the Z-score  *)
(* method.                                                                 *)
(***************************************************************************)
OneAtRow4 == [count |-> 1, indices |-> <<4>>]
NoneFlagged == [count |-> 0, indices |-> <<>>]

C6_BothMethodsFlagRow4 ==
    (df = ScenarioAB /\ aresult # <<>>) =>
        /\ AnalyzerAnomalies[1].column = "A"
        /\ AnalyzerAnomalies[1].iqr_anomalies = OneAtRow4
        /\ AnalyzerAnomalies[1].z_score_anomalies = OneAtRow4

(***************************************************************************)
(* C6, amended.  For that dataset column A has exactly one outlier, row 4, *)
(* under the IQR method, and none under the Z-score method (the z-score of *)
(* 100 is below 2), in both pipelines.                                     *)
(***************************************************************************)
C6_OnlyIQRFlagsRow4 ==
    df = ScenarioAB =>
        \A k \in 1..Len(AllAnomalies) :
            AllAnomalies[k].column = "A" =>
                /\ AllAnomalies[k].iqr_anomalies = OneAtRow4
                /\ AllAnomalies[k].z_score_anomalies = NoneFlagged

C6_Witness ==
    /\ df = ScenarioAB
    /\ aresult # <<>>
    /\ tresult # <<>>
    /\ Len(AllAnomalies) = 4

(***************************************************************************)
(* C7.  As claimed: for the column [10, 20, null, 1000] anomaly detection  *)
(* reports the value 1000 as an outlier, with row identifier 3.            *)
(***************************************************************************)
C7_Reports1000AtRow3 ==
    (df = ScenarioNull /\ aresult # <<>>) =>
        \/ 3 \in Range(AnalyzerAnomalies[1].z_score_anomalies.indices)
        \/ 3 \in Range(AnalyzerAnomalies[1].iqr_anomalies.indices)

(***************************************************************************)
(* C7, amended.  For the column [10, 20, null, 1000] anomaly detection     *)
(* reports no outlier under either method; for [10, 10, 10, 10, null,      *)
(* 1000] the IQR method reports the value 1000 with row identifier 5, not  *)
(* 4.                                                                      *)
(***************************************************************************)
C7_NullKeepsRowIds ==
    /\ (df = ScenarioNull /\ aresult # <<>>) =>
          /\ AnalyzerAnomalies[1].z_score_anomalies = NoneFlagged
          /\ AnalyzerAnomalies[1].iqr_anomalies = NoneFlagged
    /\ (df = ScenarioShift /\ aresult # <<>>) =>
          /\ AnalyzerAnomalies[1].z_score_anomalies = NoneFlagged
          /\ AnalyzerAnomalies[1].iqr_anomalies = [count |-> 1, indices |-> <<5>>]

C7_Witness ==
    /\ df = ScenarioNull
    /\ apc = "done"
    /\ Len(AnalyzerAnomalies) = 1

(***************************************************************************)
(* C8.  For a numeric column whose non-null values are all identical, or   *)
(* which has fewer than 2 non-null values, anomaly detection does not      *)
(* raise and yields count 0 and no indices under both methods.  Stated on  *)
(* the frames all of whose numeric columns are such, so that a raise is    *)
(* that of such a column.                                                  *)
(***************************************************************************)
Degenerate(column) ==
    \/ Cardinality(NonNullRows(column)) < 2
    \/ \A r, q \in NonNullRows(column) : ValueAt(column, r) = ValueAt(column, q)

C8_DegenerateColumnsQuiet ==
    (\A i \in NumericColumns(df) : Degenerate(df[i])) =>
        /\ ~TaskRaisedWrongLength
        /\ \A k \in 1..Len(AllAnomalies) :
              /\ AllAnomalies[k].z_score_anomalies = NoneFlagged
              /\ AllAnomalies[k].iqr_anomalies = NoneFlagged

\* the part of C8 that DataAnalyzer.detect_anomalies keeps
C8_AnalyzerQuiet ==
    \A k \in 1..Len(AnalyzerAnomalies) :
        Degenerate(ColumnNamed(df, AnalyzerAnomalies[k].column)) =>
            /\ AnalyzerAnomalies[k].z_score_anomalies = NoneFlagged
            /\ AnalyzerAnomalies[k].iqr_anomalies = NoneFlagged

(***************************************************************************)
(* C9.  A dataset of zero rows fails with the empty-dataset error before   *)
(* anything else: DataAnalyzer is never constructed, so analyze never      *)
(* runs, and DataAnalysisTask.analyze raises with no statistic computed    *)
(* and no UploadedFile, ReportEntry, CorrelationEntry or AnomalyEntry      *)
(* created.                                                                *)
(***************************************************************************)
C9_EmptyFailsFirst ==
    Len(df[1].cells) = 0 =>
        /\ apc \in {"new", "raised"}
        /\ aresult = <<>>
        /\ tpc \in {"start", "raised"}
        /\ tlocal = <<>>
        /\ tresult = <<>>
        /\ uploaded_files = <<>>
        /\ file_reports = <<>>
        /\ correlation_rows = <<>>
        /\ anomaly_rows = <<>>

C9_Witness ==
    /\ Len(df[1].cells) = 0
    /\ apc = "raised"
    /\ tpc = "raised"

(***************************************************************************)
(* C10.  With fewer than 2 numeric columns the correlation result is the   *)
(* `message` marker alone and the rest of the profile is still produced;   *)
(* with 2 or more it has correlation_matrix and strong_correlations and no *)
(* message.  A run of the task may still fail when the commit does.        *)
(***************************************************************************)
CorrelationKeys(c) ==
    IF Cardinality(NumericColumns(df)) < 2
    THEN DOMAIN c = {"message"}
    ELSE DOMAIN c = {"correlation_matrix", "strong_correlations"}

C10_CorrelationShape ==
    /\ aresult # <<>> => CorrelationKeys(aresult[1].correlations)
    /\ tlocal # <<>> => CorrelationKeys(tlocal[1].correlations)

C10_MarkerAndRest ==
    /\ C10_CorrelationShape
    /\ apc = "done" =>
          {"basic_stats", "missing_values", "anomalies"} \subseteq DOMAIN aresult[1]
    /\ Cardinality(NumericColumns(df)) < 2 => ~TaskRaisedWrongLength


(***************************************************************************)
(* Correlations, read straight from the frame.  Over the rows where both   *)
(* columns hold a value, with N such rows and dx = N*x - sum(x):           *)
(*   c = sum dx*dy,  vx = sum dx^2,  vy = sum dy^2,  r = c / sqrt(vx*vy)   *)
(***************************************************************************)
RefMoments(cx, cy) ==
    LET n    == Len(cx.cells)
        both == [p \in 1..n |-> ~IsNull(cx.cells[p]) /\ ~IsNull(cy.cells[p])]
        N    == SumRange([p \in 1..n |-> IF both[p] THEN 1 ELSE 0], 1, n)
        x    == [p \in 1..n |-> IF both[p] THEN cx.cells[p][1] ELSE 0]
        y    == [p \in 1..n |-> IF both[p] THEN cy.cells[p][1] ELSE 0]
        SX   == SumRange(x, 1, n)
        SY   == SumRange(y, 1, n)
        dx   == [p \in 1..n |-> IF both[p] THEN N * x[p] - SX ELSE 0]
        dy   == [p \in 1..n |-> IF both[p] THEN N * y[p] - SY ELSE 0]
    IN [c  |-> SumRange([p \in 1..n |-> dx[p] * dy[p]], 1, n),
        vx |-> SumRange([p \in 1..n |-> dx[p] * dx[p]], 1, n),
        vy |-> SumRange([p \in 1..n |-> dy[p] * dy[p]], 1, n)]

\* r is defined
RefDefined(m) == m.vx > 0 /\ m.vy > 0
\* |r| > 0.5
RefStrong(m) == RefDefined(m) /\ 4 * m.c * m.c > m.vx * m.vy

\* the pairs of numeric columns, earlier column first
NumericPairs(frame) ==
    {ij \in NumericColumns(frame) \X NumericColumns(frame) : ij[1] < ij[2]}
StrongPairsOf(frame) ==
    {ij \in NumericPairs(frame) : RefStrong(RefMoments(frame[ij[1]], frame[ij[2]]))}

\* the correlation results at hand, DataAnalyzer's first
CorrResults ==
    (IF aresult = <<>> THEN <<>> ELSE <<aresult[1].correlations>>)
    \o (IF tlocal = <<>> THEN <<>> ELSE <<tlocal[1].correlations>>)
HasPairs(c) == "strong_correlations" \in DOMAIN c

(***************************************************************************)
(* C11.  strong_correlations holds exactly one entry for each pair of      *)
(* numeric columns (i, j), i < j, with |correlation| > 0.5, column1 the    *)
(* earlier column; no pair with |correlation| <= 0.5, no self-pair and no  *)
(* pair twice in either order.                                             *)
(***************************************************************************)
C11_StrongPairsOnce ==
    \A n \in 1..Len(CorrResults) :
        HasPairs(CorrResults[n]) =>
            LET l      == CorrResults[n].strong_correlations
                strong == StrongPairsOf(df)
            IN /\ \A ij \in strong :
                     Cardinality({k \in 1..Len(l) :
                                     /\ l[k].column1 = df[ij[1]].name
                                     /\ l[k].column2 = df[ij[2]].name}) = 1
               /\ \A k \in 1..Len(l) :
                     /\ l[k].column1 # l[k].column2
                     /\ \E ij \in strong :
                           /\ l[k].column1 = df[ij[1]].name
                           /\ l[k].column2 = df[ij[2]].name
               /\ \A k, m \in 1..Len(l) :
                     k # m =>
                        /\ <<l[k].column1, l[k].column2>> # <<l[m].column1, l[m].column2>>
                        /\ <<l[k].column1, l[k].column2>> # <<l[m].column2, l[m].column1>>

\* both pipelines have listed some pairs of a frame and left others out
C11_Witness ==
    /\ Len(CorrResults) = 2
    /\ \A n \in 1..2 :
          /\ HasPairs(CorrResults[n])
          /\ Len(CorrResults[n].strong_correlations) > 1
          /\ Len(CorrResults[n].strong_correlations) < Cardinality(NumericPairs(df))

(***************************************************************************)
(* C12.  strong_correlations is in descending order of |correlation|, and  *)
(* entries of equal |correlation| stay in the order of the upper triangle  *)
(* (row i ascending, then column j ascending).                             *)
(***************************************************************************)
ColumnIndex(frame, name) == CHOOSE i \in 1..Len(frame) : frame[i].name = name

\* entry a comes before entry b in the upper triangle
TriangleBefore(a, b) ==
    LET ai == ColumnIndex(df, a.column1)
        aj == ColumnIndex(df, a.column2)
        bi == ColumnIndex(df, b.column1)
        bj == ColumnIndex(df, b.column2)
    IN ai < bi \/ (ai = bi /\ aj < bj)

\* |a| <= |b| and |a| = |b| for coefficients <<sgn, n, d>>, n/d reduced
AbsLeq(a, b) == FracLeq(a[2], a[3], b[2], b[3])
AbsEq(a, b) == a[2] = b[2] /\ a[3] = b[3]

C12_DescendingStable ==
    \A n \in 1..Len(CorrResults) :
        HasPairs(CorrResults[n]) =>
            LET l == CorrResults[n].strong_correlations
            IN \A k, m \in 1..Len(l) :
                  k < m =>
                     /\ AbsLeq(l[m].correlation, l[k].correlation)
                     /\ AbsEq(l[k].correlation, l[m].correlation) =>
                           TriangleBefore(l[k], l[m])

\* both pipelines hold a list that the sort has reordered and in which a
\* positive and a negative coefficient of the same size stand in a row
C12_Witness ==
    /\ Len(CorrResults) = 2
    /\ \A n \in 1..2 :
          /\ HasPairs(CorrResults[n])
          /\ LET l == CorrResults[n].strong_correlations
             IN /\ \E k, m \in 1..Len(l) : k < m /\ TriangleBefore(l[m], l[k])
                /\ \E k \in 1..(Len(l) - 1) :
                      /\ AbsEq(l[k].correlation, l[k + 1].correlation)
                      /\ l[k].correlation[1] # l[k + 1].correlation[1]

(***************************************************************************)
(* C13.  Whether a pair is strong is decided on the full-precision         *)
(* coefficient, not on the value rounded to 3 decimals that                *)
(* correlation_matrix shows: a pair is listed exactly when |r| > 0.5, with *)
(* its unrounded coefficient, whatever the matrix shows for it; so of two  *)
(* pairs both shown as 0.5, the one just above 0.5 is listed and the one   *)
(* at or just below 0.5 is not.                                            *)
(***************************************************************************)
\* the place of column i of the frame among its numeric columns
NumericRank(frame, i) == Cardinality({k \in NumericColumns(frame) : k <= i})

\* what correlation_matrix shows for the pair, in thousandths
Shown(c, ij) ==
    c.correlation_matrix[NumericRank(df, ij[1])].values[NumericRank(df, ij[2])]

\* the entries of the list for the pair
Listed(l, ij) ==
    {k \in 1..Len(l) : /\ l[k].column1 = df[ij[1]].name
                       /\ l[k].column2 = df[ij[2]].name}

\* v thousandths is r rounded to 3 decimals: same sign, and
\* (2|v| - 1)^2 <= 4 * 1000^2 * r^2 <= (2|v| + 1)^2
RoundsTo(m, v) ==
    LET a == IF v < 0 THEN -v ELSE v
    IN /\ v * m.c >= 0
       /\ a > 0 => FracLeq((2 * a - 1) * (2 * a - 1), 4000000, m.c * m.c, m.vx * m.vy)
       /\ FracLeq(m.c * m.c, m.vx * m.vy, (2 * a + 1) * (2 * a + 1), 4000000)

\* the coefficient <<sgn, n, d>> is r, unrounded
IsExactly(r, m) ==
    /\ r[1] * m.c > 0
    /\ FracLeq(r[2], r[3], m.c * m.c, m.vx * m.vy)
    /\ FracLeq(m.c * m.c, m.vx * m.vy, r[2], r[3])

C13_DecidedUnrounded ==
    \A n \in 1..Len(CorrResults) :
        HasPairs(CorrResults[n]) =>
            \A ij \in NumericPairs(df) :
                LET c == CorrResults[n]
                    m == RefMoments(df[ij[1]], df[ij[2]])
                IN /\ Listed(c.strong_correlations, ij) # {} <=> RefStrong(m)
                   /\ \A k \in Listed(c.strong_correlations, ij) :
                         IsExactly(c.strong_correlations[k].correlation, m)
                   /\ RefDefined(m) =>
                         /\ Shown(c, ij) # NaN
                         /\ RoundsTo(m, Shown(c, ij)[1])

\* both pipelines show 0.5 for a pair they list and for a pair they do not
C13_Witness ==
    /\ Len(CorrResults) = 2
    /\ \A n \in 1..2 :
          /\ HasPairs(CorrResults[n])
          /\ \E ij, uv \in NumericPairs(df) :
                /\ Shown(CorrResults[n], ij) = <<500>>
                /\ Shown(CorrResults[n], uv) = <<500>>
                /\ Listed(CorrResults[n].strong_correlations, ij) # {}
                /\ Listed(CorrResults[n].strong_correlations, uv) = {}

(***************************************************************************)
(* C14.  The missing-value report covers every column, numeric or not:     *)
(* missing_per_column[col] is the number of null entries of col,           *)
(* total_missing is the sum of missing_per_column over all columns, and    *)
(* missing_percentage[col] is missing_per_column[col] / rows * 100 rounded *)
(* to 2 decimals, within [0, 100].                                         *)
(***************************************************************************)
\* the missing-value reports at hand, DataAnalyzer's first
MissingResults ==
    (IF aresult = <<>> THEN <<>> ELSE <<aresult[1].missing_values>>)
    \o (IF tlocal = <<>> THEN <<>> ELSE <<tlocal[1].missing_values>>)

NullRows(column) == RowIds(column) \ NonNullRows(column)

\* p hundredths of a percent is count / rows * 100 rounded to 2 decimals
\* (halves to even)
IsPercentage(p, count, rows) ==
    LET exact == 10000 * count      \* p * rows, were nothing rounded
        off   == p * rows - exact
    IN /\ 0 <= p /\ p <= 10000
       /\ 2 * off <= rows /\ -2 * off <= rows
       /\ (2 * off = rows \/ -2 * off = rows) => p % 2 = 0

C14_MissingReport ==
    \A n \in 1..Len(MissingResults) :
        LET mv == MissingResults[n]
        IN /\ Len(mv.missing_per_column) = Len(df)
           /\ Len(mv.missing_percentage) = Len(df)
           /\ \A i \in 1..Len(df) :
                 /\ mv.missing_per_column[i].column = df[i].name
                 /\ mv.missing_per_column[i].value = Cardinality(NullRows(df[i]))
                 /\ mv.missing_percentage[i].column = df[i].name
                 /\ IsPercentage(mv.missing_percentage[i].value,
                                 mv.missing_per_column[i].value, Len(df[i].cells))
           /\ mv.total_missing =
                 SumRange([i \in 1..Len(df) |-> mv.missing_per_column[i].value],
                          1, Len(df))

\* both pipelines report a text column whose percentage had to be rounded,
\* beside a numeric column
C14_Witness ==
    /\ Len(MissingResults) = 2
    /\ \E i, j \in 1..Len(df) :
          /\ ~df[i].numeric
          /\ df[j].numeric
          /\ (10000 * Cardinality(NullRows(df[i]))) % Len(df[i].cells) # 0
          /\ \A n \in 1..2 : MissingResults[n].missing_percentage[i].value > 0

(***************************************************************************)
(* C15.  basic_stats has an entry for exactly the numeric columns, and for *)
(* every numeric column with a non-null value min <= q1 <= median <= q3    *)
(* <= max, q1, median and q3 being the 25th, 50th and 75th percentiles by  *)
(* linear interpolation over the non-null values.                          *)
(***************************************************************************)
BasicResults ==
    (IF aresult = <<>> THEN <<>> ELSE <<aresult[1].basic_stats>>)
    \o (IF tlocal = <<>> THEN <<>> ELSE <<tlocal[1].basic_stats>>)

\* the float <<n, d>> is q / 4
IsQuarterOf(x, q) == ~IsNaN(x) /\ 4 * x[1] = q * x[2]
\* x <= y for floats <<n, d>>
FloatLeq(x, y) == x[1] * y[2] <= y[1] * x[2]

Lowest(column) == CHOOSE v \in NonNullValues(column) : \A w \in NonNullValues(column) : v <= w
Highest(column) == CHOOSE v \in NonNullValues(column) : \A w \in NonNullValues(column) : v >= w

C15_NumericColumnsOrdered ==
    \A n \in 1..Len(BasicResults) :
        LET b == BasicResults[n]
        IN /\ {b[k].column : k \in 1..Len(b)} = {df[i].name : i \in NumericColumns(df)}
           /\ Len(b) = Cardinality(NumericColumns(df))
           /\ \A k \in 1..Len(b) :
                 LET col == ColumnNamed(df, b[k].column)
                 IN NonNullRows(col) # {} =>
                       /\ IsQuarterOf(b[k].min, 4 * Lowest(col))
                       /\ IsQuarterOf(b[k].q1, Percentile4(col, 1))
                       /\ IsQuarterOf(b[k].median, Percentile4(col, 2))
                       /\ IsQuarterOf(b[k].q3, Percentile4(col, 3))
                       /\ IsQuarterOf(b[k].max, 4 * Highest(col))
                       /\ FloatLeq(b[k].min, b[k].q1)
                       /\ FloatLeq(b[k].q1, b[k].median)
                       /\ FloatLeq(b[k].median, b[k].q3)
                       /\ FloatLeq(b[k].q3, b[k].max)

\* both pipelines leave a text column out and report a numeric column
\* whose quartiles are interpolated and all different
C15_Witness ==
    /\ Len(BasicResults) = 2
    /\ \E i \in 1..Len(df) : ~df[i].numeric
    /\ \A n \in 1..2 :
          \E k \in 1..Len(BasicResults[n]) :
             LET e == BasicResults[n][k]
             IN /\ Percentile4(ColumnNamed(df, e.column), 1) % 4 # 0
                /\ e.min # e.q1 /\ e.q1 # e.median
                /\ e.median # e.q3 /\ e.q3 # e.max

(***************************************************************************)
(* C16.  As claimed: the profile that DataAnalyzer.analyze and             *)
(* DataAnalysisTask.analyze return has exactly the top-level keys          *)
(* basic_stats, missing_values, correlations, anomalies and metadata, with *)
(* metadata holding rows, columns and dtypes.                              *)
(***************************************************************************)
AnalysisKeys == {"basic_stats", "missing_values", "correlations", "anomalies"}
MetadataKeys == {"rows", "columns", "dtypes"}

C16_ExactlyFiveKeys ==
    /\ aresult # <<>> =>
          /\ DOMAIN aresult[1] = AnalysisKeys \cup {"metadata"}
          /\ DOMAIN aresult[1].metadata = MetadataKeys
    /\ tresult # <<>> =>
          /\ DOMAIN tresult[1] = AnalysisKeys \cup {"metadata"}
          /\ DOMAIN tresult[1].metadata = MetadataKeys

(***************************************************************************)
(* C16, amended.  DataAnalyzer.analyze returns exactly the keys            *)
(* basic_stats, missing_values, correlations, anomalies, metadata and      *)
(* visualizations, with metadata holding rows, columns and dtypes (one     *)
(* dtype per column); DataAnalysisTask.analyze, when it returns, returns   *)
(* exactly basic_stats, missing_values, correlations, anomalies,           *)
(* timestamp, file_name, rows and columns, with no metadata key.           *)
(***************************************************************************)
C16_ProfileKeys ==
    /\ aresult # <<>> =>
          /\ DOMAIN aresult[1] = AnalysisKeys \cup {"metadata", "visualizations"}
          /\ DOMAIN aresult[1].metadata = MetadataKeys
          /\ aresult[1].metadata.rows = Cardinality(RowIds(df[1]))
          /\ aresult[1].metadata.columns = [i \in 1..Len(df) |-> df[i].name]
          /\ Len(aresult[1].metadata.dtypes) = Len(df)
          /\ \A i \in 1..Len(df) : aresult[1].metadata.dtypes[i].column = df[i].name
    /\ tresult # <<>> =>
          /\ DOMAIN tresult[1] =
                AnalysisKeys \cup {"timestamp", "file_name", "rows", "columns"}
          /\ tresult[1].rows = Cardinality(RowIds(df[1]))
          /\ tresult[1].columns = [i \in 1..Len(df) |-> df[i].name]

\* both orchestrators have returned a profile
C16_Witness ==
    /\ apc = "done" /\ aresult # <<>>
    /\ tpc = "returned" /\ tresult # <<>>

(***************************************************************************)
(* C17.  Profiling is all-or-nothing: when one of the analyses or the save *)
(* step raises during DataAnalysisTask.analyze, no profile is returned and *)
(* no ReportEntry, CorrelationEntry or AnomalyEntry of the run is stored;  *)
(* in every database state the result rows of a file are none or the       *)
(* complete set: one ReportEntry per column of the dataset and all its     *)
(* correlation and anomaly entries.                                        *)
(***************************************************************************)
RowsOf(table, file_id) == SelectSeq(table, LAMBDA row : row.file_id = file_id)

\* how many (column, method) pairs have something to report
MethodsWithOutliers(frame) ==
    Cardinality({i \in NumericColumns(frame) : ZOutliers(frame[i], 0) # {}})
    + Cardinality({i \in NumericColumns(frame) : IQROutliers(frame[i]) # {}})

NoRows(file_id) ==
    /\ RowsOf(file_reports, file_id) = <<>>
    /\ RowsOf(correlation_rows, file_id) = <<>>
    /\ RowsOf(anomaly_rows, file_id) = <<>>

AllRows(file_id) ==
    /\ LET reports == RowsOf(file_reports, file_id)
       IN /\ Len(reports) = Len(df)
          /\ \A i \in 1..Len(df) : reports[i].column = df[i].name
    /\ Len(RowsOf(correlation_rows, file_id)) = Cardinality(StrongPairsOf(df))
    /\ Len(RowsOf(anomaly_rows, file_id)) = MethodsWithOutliers(df)

C17_AllOrNothing ==
    /\ \A row \in Range(file_reports) \cup Range(correlation_rows)
                     \cup Range(anomaly_rows) :
          row.file_id \in 1..Len(uploaded_files)
    /\ \A file_id \in 1..Len(uploaded_files) :
          /\ NoRows(file_id) \/ AllRows(file_id)
          /\ (tpc = "raised" /\ tlocal = <<>>) => NoRows(file_id)
    /\ tpc = "raised" => tresult = <<>>

\* one run has failed in its analyses and stored nothing
C17_Witness ==
    /\ tpc = "raised"
    /\ \E file_id \in 1..Len(uploaded_files) :
          /\ uploaded_files[file_id].status = "failed"
          /\ uploaded_files[file_id].error_message = <<ItemWrongLength>>
          /\ NoRows(file_id)

Methods == {"z_score", "iqr"}
Flagged(column, method) ==
    IF method = "z_score" THEN ZOutliers(column, 0) ELSE IQROutliers(column)

ResultsCommitted(file_id) == RowsOf(file_reports, file_id) # <<>>

\* the indices are the lowest Min2(IndexCap, count) of the flagged rows
FirstOf(indices, flagged) ==
    /\ Len(indices) = Min2(IndexCap, Cardinality(flagged))
    /\ StrictlyAscending(indices)
    /\ Range(indices) \subseteq flagged
    /\ \A r \in flagged \ Range(indices) : \A q \in Range(indices) : q < r

C19_AnomalyEntries ==
    \A file_id \in 1..Len(uploaded_files) :
        LET entries == RowsOf(anomaly_rows, file_id)
        IN IF ResultsCommitted(file_id)
           THEN /\ \A k \in 1..Len(entries) :
                     /\ entries[k].method \in Methods
                     /\ \E i \in NumericColumns(df) : df[i].name = entries[k].column
                /\ \A i \in NumericColumns(df), method \in Methods :
                     LET flagged == Flagged(df[i], method)
                         stored  == {k \in 1..Len(entries) :
                                       /\ entries[k].column = df[i].name
                                       /\ entries[k].method = method}
                     IN /\ Cardinality(stored) = IF flagged # {} THEN 1 ELSE 0
                        /\ \A k \in stored :
                              /\ entries[k].count = Cardinality(flagged)
                              /\ entries[k].count > 0
                              /\ FirstOf(entries[k].anomaly_indices, flagged)
           ELSE entries = <<>>

\* a committed iqr entry with more than IndexCap flagged rows, beside no
\* z_score entry for the column
C19_Witness ==
    /\ tpc = "returned"
    /\ \E k \in 1..Len(anomaly_rows) :
          /\ anomaly_rows[k].method = "iqr"
          /\ anomaly_rows[k].count > IndexCap
          /\ Len(anomaly_rows[k].anomaly_indices) = IndexCap
          /\ \A j \in 1..Len(anomaly_rows) :
                anomaly_rows[j].column = anomaly_rows[k].column => j = k

(***************************************************************************)
(* C20.  An UploadedFile entry is committed as "processing" and, once      *)
(* analyze has returned or raised, is in one terminal status: "completed"  *)
(* with analysis_completed_at set and the results committed if analyze     *)
(* returned, "failed" with error_message set if it raised; no entry is     *)
(* left "processing" after analyze has ended.                              *)
(***************************************************************************)
C20_StatusLifecycle ==
    \A file_id \in 1..Len(uploaded_files) :
        LET entry == uploaded_files[file_id]
        IN /\ entry.status \in {"processing", "completed", "failed"}
           /\ entry.status = "completed" =>
                 /\ entry.analysis_completed_at # <<>>
                 /\ ResultsCommitted(file_id)
           /\ entry.status = "failed" => entry.error_message # <<>>
           /\ tpc = "returned" => entry.status = "completed"
           /\ tpc = "raised" => entry.status = "failed"
           /\ tpc \in {"returned", "raised"} => entry.status # "processing"

(***************************************************************************)
(* C21.  upload_old_analyses loses no analysis: the rows of a file go only *)
(* after its document is in S3, a failure for one file leaves that file's  *)
(* rows and the run goes on to the next file, and every completed analysis *)
(* is in the database or in S3.  No put and no commit of the run fails     *)
(* here, so a run has dealt with every file it was due to archive: once    *)
(* one has ended, no analysis completed before its cutoff is left in the   *)
(* database, and every completed analysis still there has its rows.        *)
(***************************************************************************)
Archivable(entry, cutoff_time) ==
    /\ entry.status = "completed"
    /\ entry.analysis_completed_at[1] * HoursPerTick < cutoff_time

C22_OthersLeftUnchanged ==
    [][archival' # archival =>
          \A i \in 1..Len(uploaded_files) :
              ~Archivable(uploaded_files[i], archival'[1].cutoff_time) =>
                  /\ \E j \in 1..Len(uploaded_files') :
                        uploaded_files'[j] = uploaded_files[i]
                  /\ RowsOf(file_reports', uploaded_files[i].id)
                        = RowsOf(file_reports, uploaded_files[i].id)
                  /\ RowsOf(correlation_rows', uploaded_files[i].id)
                        = RowsOf(correlation_rows, uploaded_files[i].id)
                  /\ RowsOf(anomaly_rows', uploaded_files[i].id)
                        = RowsOf(anomaly_rows, uploaded_files[i].id)]_vars

\* a run has ended while an analysis that began before it is in progress,
\* beside a failed entry
C22_Witness ==
    /\ archival # <<>>
    /\ tpc = "processing"
    /\ uploaded_files[Len(uploaded_files)].status = "processing"
    /\ uploaded_files[Len(uploaded_files)].upload_time * HoursPerTick
          < archival[1].cutoff_time + hours_threshold
    /\ \E i \in 1..Len(uploaded_files) : uploaded_files[i].status = "failed"

(***************************************************************************)
(* C23.  GET /analysis/{filename} answers from the latest database entry   *)
(* of the name and turns to S3 only without one: "processing" for a        *)
(* processing entry, the formatted results with source "database" for a    *)
(* completed one, status 500 with the stored error_message for a failed    *)
(* one, the S3 document with source "s3" when only S3 has it, and status   *)
(* 404 "Analysis not found in database or S3" when neither has it.         *)
(***************************************************************************)
\* (an answer to a request whose database query raised is left aside)
QueryRaised(answer) ==
    /\ answer.status_code = 500
    /\ answer.content.detail = <<QueryFailed>>

C23_AnswersAsStated ==
    (response # <<>> /\ ~QueryRaised(response[1])) =>
        LET answer == response[1]
        IN IF answer.file_entry # <<>>
           THEN LET file_entry == answer.file_entry[1]
                IN /\ answer.s3_data = <<>>
                   /\ file_entry.original_filename = answer.filename
                   /\ file_entry.status = "processing" =>
                         /\ answer.status_code = 200
                         /\ answer.content.status = "processing"
                   /\ file_entry.status = "completed" =>
                         /\ answer.status_code = 200
                         /\ answer.content.source = "database"
                         /\ answer.content.status = "completed"
                   /\ file_entry.status = "failed" =>
                         /\ answer.status_code = 500
                         /\ \E k \in 1..Len(answer.content.detail) :
                               <<answer.content.detail[k]>> = file_entry.error_message
           ELSE IF answer.s3_data # <<>>
           THEN /\ answer.status_code = 200
                /\ answer.content.source = "s3"
                /\ answer.content.document = answer.s3_data[1]
                /\ answer.s3_data[1].metadata.file_name = answer.filename
           ELSE /\ answer.status_code = 404
                /\ answer.content.detail = <<NotFound>>

=============================================================================
